---- MODULE Spec2Model ----
(***************************************************************************)
(* ThethaCore configuration parser (src/src/parser.rs).                    *)
(*                                                                         *)
(* Text is modelled by TLA+ strings, one character per position.  The      *)
(* line loop of ThethaCoreConfig::parse is a state machine (one action per *)
(* branch of the loop body); parse_value is a recursive operator.          *)
(*                                                                         *)
(* Values:  String  [type, s]      Integer [type, i]   Float [type, f]     *)
(*          Boolean [type, b]      Null    [type]                          *)
(*          Array   [type, items]  Object  [type, map]                     *)
(* An Integer carries the canonical decimal text of its i64 value (the     *)
(* 64-bit range does not fit the integers of TLC); a Float carries its     *)
(* exact decimal value as sign, mantissa digits and power of ten (the      *)
(* rounding to binary64 is not modelled).                                  *)
(***************************************************************************)
EXTENDS Integers, Sequences, FiniteSets, TLC

VARIABLES
    doc,                \* the lines the input text is written from
    input,              \* the text given to parse
    line_num,           \* lines of the loop already consumed (0-based index)
    current_sections,   \* the nested names of the last header
    sections,           \* config.sections: path -> (key -> Value)
    result,             \* Running, or what parse returned
    origin,             \* the parts a value token is written from
    token,              \* the text given to parse_value
    decoded             \* whether parse_value was called, and its outcome

vars == <<doc, input, line_num, current_sections, sections, result,
          origin, token, decoded>>

----------------------------------------------------------------------------
(* Bounds of the model.                                                    *)

MaxLines == 3

MaxItems == 2

----------------------------------------------------------------------------
(* str primitives of the Rust standard library, as the parser uses them.   *)

Ch(s, i) == SubSeq(s, i, i)

(* char::is_whitespace and the regex class \s: the White_Space characters  *)
(* U+0009..U+000D, U+0020, U+0085 and U+00A0 (text is modelled over the    *)
(* code points up to U+00FF).                                              *)
Whitespace == {"\t", "\n", "", "\f", "\r", " ", "", " "}

Digits == {"0", "1", "2", "3", "4", "5", "6", "7", "8", "9"}

Letters ==
    {"a", "b", "c", "d", "e", "f", "g", "h", "i", "j", "k", "l", "m",
     "n", "o", "p", "q", "r", "s", "t", "u", "v", "w", "x", "y", "z",
     "A", "B", "C", "D", "E", "F", "G", "H", "I", "J", "K", "L", "M",
     "N", "O", "P", "Q", "R", "S", "T", "U", "V", "W", "X", "Y", "Z"}

(* The letters beyond ASCII up to U+00FF (Unicode property Alphabetic).    *)
LatinLetters ==
    {"ª", "µ", "º", "À", "Á", "Â", "Ã", "Ä", "Å", "Æ", "Ç", "È", "É",
     "Ê", "Ë", "Ì", "Í", "Î", "Ï", "Ð", "Ñ", "Ò", "Ó", "Ô", "Õ", "Ö",
     "Ø", "Ù", "Ú", "Û", "Ü", "Ý", "Þ", "ß", "à", "á", "â", "ã", "ä",
     "å", "æ", "ç", "è", "é", "ê", "ë", "ì", "í", "î", "ï", "ð", "ñ",
     "ò", "ó", "ô", "õ", "ö", "ø", "ù", "ú", "û", "ü", "ý", "þ", "ÿ"}

(* The regex class \w (Unicode mode): letters, decimal digits, connector   *)
(* punctuation.                                                            *)
WordChars == Letters \cup LatinLetters \cup Digits \cup {"_"}

starts_with(s, p) == Len(s) >= Len(p) /\ SubSeq(s, 1, Len(p)) = p

ends_with(s, p) ==
    Len(s) >= Len(p) /\ SubSeq(s, Len(s) - Len(p) + 1, Len(s)) = p

RECURSIVE trim_start(_)
trim_start(s) ==
    IF Len(s) > 0 /\ Ch(s, 1) \in Whitespace
    THEN trim_start(SubSeq(s, 2, Len(s)))
    ELSE s

RECURSIVE trim_end(_)
trim_end(s) ==
    IF Len(s) > 0 /\ Ch(s, Len(s)) \in Whitespace
    THEN trim_end(SubSeq(s, 1, Len(s) - 1))
    ELSE s

trim(s) == trim_end(trim_start(s))

(* The offset (0-based) of the first occurrence of pat in s at or after    *)
(* offset from, or -1.                                                     *)
RECURSIVE find_from(_, _, _)
find_from(s, pat, from) ==
    IF from + Len(pat) > Len(s) THEN -1
    ELSE IF SubSeq(s, from + 1, from + Len(pat)) = pat THEN from
    ELSE find_from(s, pat, from + 1)

(* str::split(pat): the pieces between the non-overlapping occurrences of  *)
(* pat, found left to right; always at least one piece.                    *)
RECURSIVE split(_, _)
split(s, pat) ==
    LET at == find_from(s, pat, 0)
    IN  IF at < 0 THEN <<s>>
        ELSE <<SubSeq(s, 1, at)>>
             \o split(SubSeq(s, at + Len(pat) + 1, Len(s)), pat)

RECURSIVE join(_, _)
join(parts, sep) ==
    IF Len(parts) = 0 THEN ""
    ELSE IF Len(parts) = 1 THEN parts[1]
    ELSE parts[1] \o sep \o join(Tail(parts), sep)

(* str::lines(): the pieces ended by a line feed, each without the line    *)
(* feed and without a carriage return right before it, and the rest of the *)
(* text when it is not empty.                                              *)
lines(text) ==
    LET pieces == split(text, "\n")
        n == Len(pieces)
        ended == [i \in 1..(n - 1) |->
                    IF ends_with(pieces[i], "\r")
                    THEN SubSeq(pieces[i], 1, Len(pieces[i]) - 1)
                    ELSE pieces[i]]
    IN  IF pieces[n] = "" THEN ended ELSE ended \o <<pieces[n]>>

AllIn(s, set) == \A i \in 1..Len(s) : Ch(s, i) \in set

----------------------------------------------------------------------------
(* str::parse::<i64>: an optional sign '+' or '-', one or more decimal     *)
(* digits, and a value within the signed 64-bit range.                     *)

I64MaxDigits == "9223372036854775807"

I64MinDigits == "9223372036854775808"

DigitVal(c) ==
    CASE c = "0" -> 0 [] c = "1" -> 1 [] c = "2" -> 2 [] c = "3" -> 3
      [] c = "4" -> 4 [] c = "5" -> 5 [] c = "6" -> 6 [] c = "7" -> 7
      [] c = "8" -> 8 [] c = "9" -> 9

RECURSIVE strip_zeros(_)
strip_zeros(d) ==
    IF Len(d) > 1 /\ Ch(d, 1) = "0"
    THEN strip_zeros(SubSeq(d, 2, Len(d)))
    ELSE d

(* a <= b for two digit strings without leading zeros.                     *)
RECURSIVE digits_le(_, _)
digits_le(a, b) ==
    IF Len(a) # Len(b) THEN Len(a) < Len(b)
    ELSE IF Len(a) = 0 THEN TRUE
    ELSE IF Ch(a, 1) # Ch(b, 1) THEN DigitVal(Ch(a, 1)) < DigitVal(Ch(b, 1))
    ELSE digits_le(SubSeq(a, 2, Len(a)), SubSeq(b, 2, Len(b)))

HasSign(s) == Len(s) > 0 /\ Ch(s, 1) \in {"+", "-"}

Unsigned(s) == IF HasSign(s) THEN SubSeq(s, 2, Len(s)) ELSE s

i64_unchecked(neg, mag) == TRUE

(* The overflow check of the conversion: the magnitude fits 64 bits.       *)
i64_in_range(neg, mag) ==
    digits_le(mag, IF neg THEN I64MinDigits ELSE I64MaxDigits)

(* Ok: [ok |-> TRUE, i |-> canonical decimal text]; Err: [ok |-> FALSE].   *)
parse_i64(s) ==
    LET neg  == Len(s) > 0 /\ Ch(s, 1) = "-"
        body == Unsigned(s)
        mag  == strip_zeros(body)
    IN  IF Len(body) = 0 \/ ~AllIn(body, Digits) THEN [ok |-> FALSE]
        ELSE IF ~i64_in_range(neg, mag) THEN [ok |-> FALSE]
        ELSE [ok |-> TRUE,
              i  |-> IF neg /\ mag # "0" THEN "-" \o mag ELSE mag]

----------------------------------------------------------------------------
(* str::parse::<f64>:                                                      *)
(*   Float  ::= Sign? ( 'inf' | 'infinity' | 'nan' | Number )              *)
(*   Number ::= ( Digit+ | Digit+ '.' Digit* | Digit* '.' Digit+ ) Exp?    *)
(*   Exp    ::= 'e' Sign? Digit+          (letters in either case)         *)

to_lower_char(c) ==
    CASE c = "I" -> "i" [] c = "N" -> "n" [] c = "F" -> "f" [] c = "T" -> "t"
      [] c = "Y" -> "y" [] c = "A" -> "a" [] c = "E" -> "e" [] OTHER -> c

RECURSIVE to_lower(_)
to_lower(s) ==
    IF Len(s) = 0 THEN ""
    ELSE to_lower_char(Ch(s, 1)) \o to_lower(SubSeq(s, 2, Len(s)))

RECURSIVE strip_trailing_zeros(_)
strip_trailing_zeros(d) ==
    IF Len(d) > 1 /\ Ch(d, Len(d)) = "0"
    THEN strip_trailing_zeros(SubSeq(d, 1, Len(d) - 1))
    ELSE d

RECURSIVE digits_to_nat(_)
digits_to_nat(d) ==
    IF Len(d) = 0 THEN 0
    ELSE 10 * digits_to_nat(SubSeq(d, 1, Len(d) - 1)) + DigitVal(Ch(d, Len(d)))

(* Ok: [ok |-> TRUE, f |-> [neg, mant, exp]], the value (-1)^neg * mant *  *)
(* 10^exp with mant free of leading and trailing zeros, or mant "inf" or   *)
(* "nan"; Err: [ok |-> FALSE].                                             *)
parse_f64(s) ==
    LET neg   == Len(s) > 0 /\ Ch(s, 1) = "-"
        body  == to_lower(Unsigned(s))
        epos  == find_from(body, "e", 0)
        num   == IF epos < 0 THEN body ELSE SubSeq(body, 1, epos)
        etxt  == IF epos < 0 THEN "" ELSE SubSeq(body, epos + 2, Len(body))
        edig  == Unsigned(etxt)
        dot   == find_from(num, ".", 0)
        ipart == IF dot < 0 THEN num ELSE SubSeq(num, 1, dot)
        fpart == IF dot < 0 THEN "" ELSE SubSeq(num, dot + 2, Len(num))
        eval  == IF epos < 0 THEN 0
                 ELSE IF Len(etxt) > 0 /\ Ch(etxt, 1) = "-"
                      THEN 0 - digits_to_nat(edig)
                      ELSE digits_to_nat(edig)
        all   == strip_zeros(ipart \o fpart)
        mant  == strip_trailing_zeros(all)
    IN  IF body \in {"inf", "infinity"}
        THEN [ok |-> TRUE, f |-> [neg |-> neg, mant |-> "inf", exp |-> 0]]
        ELSE IF body = "nan"
        THEN [ok |-> TRUE, f |-> [neg |-> FALSE, mant |-> "nan", exp |-> 0]]
        ELSE IF \/ ~AllIn(ipart, Digits) \/ ~AllIn(fpart, Digits)
                \/ Len(ipart) + Len(fpart) = 0
                \/ (epos >= 0 /\ (Len(edig) = 0 \/ ~AllIn(edig, Digits)))
        THEN [ok |-> FALSE]
        ELSE [ok |-> TRUE,
              f  |-> [neg  |-> neg,
                      mant |-> mant,
                      exp  |-> IF mant = "0" THEN 0
                               ELSE eval - Len(fpart)
                                    + (Len(all) - Len(mant))]]

----------------------------------------------------------------------------
(* The Value enum and the outcomes of a call.                              *)

String(s) == [type |-> "String", s |-> s]

Integer(i) == [type |-> "Integer", i |-> i]

Float(f) == [type |-> "Float", f |-> f]

Boolean(b) == [type |-> "Boolean", b |-> b]

Null == [type |-> "Null"]

Array(items) == [type |-> "Array", items |-> items]

Object(map) == [type |-> "Object", map |-> map]

Ok(v) == [kind |-> "Ok", value |-> v]

(* An Err(String): the message's template, line number and quoted text.    *)
Err(error, line, text) ==
    [kind |-> "Err", error |-> error, line |-> line, text |-> text]

(* A panic of the call (an out-of-order str slice).                        *)
Panic == [kind |-> "Panic"]

(* HashMap::insert: the new value replaces an earlier one of the key.      *)
insert(map, key, value) ==
    [k \in DOMAIN map \cup {key} |-> IF k = key THEN value ELSE map[k]]

----------------------------------------------------------------------------
(* parse_value                                                             *)

boolean_null_regex(s) == s \in {"True", "False", "Null"}

(* array_regex and object_regex: an opening and a closing bracket around   *)
(* any interior, so at least two characters.                               *)
array_regex(s) ==
    /\ Len(s) >= 2 /\ starts_with(s, "[") /\ ends_with(s, "]")
    /\ find_from(s, "\n", 0) < 0

object_regex(s) ==
    /\ Len(s) >= 2 /\ starts_with(s, "{") /\ ends_with(s, "}")
    /\ find_from(s, "\n", 0) < 0

interior(s) == SubSeq(s, 2, Len(s) - 1)

is_quoted(s) == starts_with(s, "\"") /\ ends_with(s, "\"")

RECURSIVE parse_value(_, _)
RECURSIVE parse_items(_, _)
RECURSIVE parse_pairs(_, _, _)

(* items_str.split(',').map(|s| parse_value(s.trim(), line_num)).collect() *)
(* : the elements are decoded in order up to the first Err.                *)
parse_items(items, line) ==
    IF Len(items) = 0 THEN Ok(<<>>)
    ELSE LET first == parse_value(trim(Head(items)), line)
         IN  IF first.kind # "Ok" THEN first
             ELSE LET rest == parse_items(Tail(items), line)
                  IN  IF rest.kind # "Ok" THEN rest
                      ELSE Ok(<<first.value>> \o rest.value)

(* The loop over content.split(','), object being the map built so far.    *)
parse_pairs(pairs, object, line) ==
    IF Len(pairs) = 0 THEN Ok(Object(object))
    ELSE LET pair == Head(pairs)
             parts == split(pair, "==")
             kv == [i \in 1..Len(parts) |-> trim(parts[i])]
         IN  IF Len(kv) # 2 THEN Err("Invalid object pair", line, pair)
             ELSE IF is_quoted(kv[1]) /\ Len(kv[1]) < 2 THEN Panic
             ELSE LET key == IF is_quoted(kv[1]) THEN interior(kv[1])
                             ELSE kv[1]
                      val == parse_value(kv[2], line)
                  IN  IF val.kind # "Ok" THEN val
                      ELSE parse_pairs(Tail(pairs),
                                       insert(object, key, val.value), line)

parse_value(value_str, line) ==
    IF boolean_null_regex(value_str)
    THEN CASE value_str = "True"  -> Ok(Boolean(TRUE))
           [] value_str = "False" -> Ok(Boolean(FALSE))
           [] value_str = "Null"  -> Ok(Null)
    ELSE IF is_quoted(value_str)
    THEN IF Len(value_str) < 2 THEN Panic
         ELSE Ok(String(interior(value_str)))
    ELSE IF parse_i64(value_str).ok
    THEN Ok(Integer(parse_i64(value_str).i))
    ELSE IF parse_f64(value_str).ok
    THEN Ok(Float(parse_f64(value_str).f))
    ELSE IF array_regex(value_str)
    THEN LET items_str == interior(value_str)
             items == IF trim(items_str) = "" THEN Ok(<<>>)
                      ELSE parse_items(split(items_str, ","), line)
         IN  IF items.kind = "Ok" THEN Ok(Array(items.value)) ELSE items
    ELSE IF object_regex(value_str)
    THEN LET content == interior(value_str)
         IN  IF trim(content) = "" THEN Ok(Object(<<>>))
             ELSE parse_pairs(split(content, ","), <<>>, line)
    ELSE Err("Unable to parse value", line, value_str)

----------------------------------------------------------------------------
(* ThethaCoreConfig::parse: the patterns of the line loop.                 *)

ignorable(trimmed) ==
    trimmed = "" \/ starts_with(trimmed, "#") \/ starts_with(trimmed, "//")

(* section_regex: '<', one or more characters other than '>', '>', end.    *)
section_regex(trimmed) ==
    /\ Len(trimmed) >= 3
    /\ starts_with(trimmed, "<")
    /\ ends_with(trimmed, ">")
    /\ find_from(interior(trimmed), ">", 0) < 0

RECURSIVE word_prefix_len(_)
word_prefix_len(s) ==
    IF Len(s) > 0 /\ Ch(s, 1) \in WordChars
    THEN 1 + word_prefix_len(SubSeq(s, 2, Len(s)))
    ELSE 0

(* kv_regex: ^(\w+)\s*==\s*(.+)$ with key the group 1 and value the group *)
(* 2: the text after the white space that follows "==", or the last white  *)
(* space character when nothing else follows; '.' matches no line feed.    *)
kv_regex(trimmed) ==
    LET n     == word_prefix_len(trimmed)
        after == trim_start(SubSeq(trimmed, n + 1, Len(trimmed)))
        rest  == SubSeq(after, 3, Len(after))
        group == IF Len(trim_start(rest)) >= 1 THEN trim_start(rest)
                 ELSE IF Len(rest) >= 1 THEN Ch(rest, Len(rest)) ELSE ""
    IN  IF /\ n >= 1 /\ starts_with(after, "==")
           /\ Len(group) >= 1 /\ find_from(group, "\n", 0) < 0
        THEN [matched |-> TRUE, key |-> SubSeq(trimmed, 1, n), value |-> group]
        ELSE [matched |-> FALSE]

(* The nested names of a header: the capture split on '<', each trimmed.   *)
section_names(trimmed) ==
    LET parts == split(interior(trimmed), "<")
    IN  [i \in 1..Len(parts) |-> trim(parts[i])]

entry_replace(secs, section_key) == insert(secs, section_key, <<>>)

entry_untouched(secs, section_key) == secs

(* config.sections.entry(section_key).or_insert(HashMap::new())            *)
entry_or_insert(secs, section_key) ==
    IF section_key \in DOMAIN secs THEN secs
    ELSE insert(secs, section_key, <<>>)

key_value_unguarded(secs, cur, key, value_str, line) ==
    LET value == parse_value(value_str, line)
        section_key == join(cur, "/")
    IN  IF value.kind # "Ok" THEN [sections |-> secs, result |-> value]
        ELSE IF section_key \in DOMAIN secs
        THEN [sections |-> insert(secs, section_key,
                                  insert(secs[section_key], key, value.value)),
              result   |-> [kind |-> "Running"]]
        ELSE [sections |-> secs,
              result   |-> Err("Section not initialized", line, section_key)]

(* The key/value branch of the loop body: the value is decoded, then the   *)
(* section is checked, then the key is stored.                             *)
key_value(secs, cur, key, value_str, line) ==
    LET value == parse_value(value_str, line)
        section_key == join(cur, "/")
    IN  IF value.kind # "Ok" THEN [sections |-> secs, result |-> value]
        ELSE IF Len(cur) = 0
        THEN [sections |-> secs,
              result   |-> Err("Key-value pair found outside of a section",
                               line, "")]
        ELSE IF section_key \in DOMAIN secs
        THEN [sections |-> insert(secs, section_key,
                                  insert(secs[section_key], key, value.value)),
              result   |-> [kind |-> "Running"]]
        ELSE [sections |-> secs,
              result   |-> Err("Section not initialized", line, section_key)]

----------------------------------------------------------------------------
(* The documents parse is run on: up to MaxLines lines of LinePool.        *)

LinePool ==
    { "", "# note", "// note",
      "<a>", " <a<b> ", "<a<b>>",
      "x == 1", "x==\"s\"", "y == [1, 2]", "\fclé== 2.5\r",
      "<a/b>", "x == foo", "x == \"", "x ==", "junk" }

Documents == UNION { [1..n -> LinePool] : n \in 0..MaxLines }

Running == result.kind = "Running"

Lines == lines(input)

Trimmed == trim(Lines[line_num + 1])

Init ==
    /\ doc \in Documents
    /\ input = join(doc, "\n")
    /\ line_num = 0
    /\ current_sections = <<>>
    /\ sections = <<>>
    /\ result = [kind |-> "Running"]
    /\ origin = [shape |-> "none"]
    /\ token = ""
    /\ decoded = [called |-> FALSE]

(* Skip empty lines and comments.                                          *)
SkipLine ==
    /\ Running /\ line_num < Len(Lines)
    /\ ignorable(Trimmed)
    /\ line_num' = line_num + 1
    /\ UNCHANGED <<doc, input, current_sections, sections, result,
                   origin, token, decoded>>

SectionHeader ==
    /\ Running /\ line_num < Len(Lines)
    /\ ~ignorable(Trimmed)
    /\ section_regex(Trimmed)
    /\ current_sections' = section_names(Trimmed)
    /\ sections' = entry_or_insert(sections, join(current_sections', "/"))
    /\ line_num' = line_num + 1
    /\ UNCHANGED <<doc, input, result, origin, token, decoded>>

KeyValue ==
    /\ Running /\ line_num < Len(Lines)
    /\ ~ignorable(Trimmed)
    /\ ~section_regex(Trimmed)
    /\ kv_regex(Trimmed).matched
    /\ LET caps == kv_regex(Trimmed)
           out  == key_value(sections, current_sections, caps.key,
                             trim(caps.value), line_num + 1)
       IN  /\ sections' = out.sections
           /\ result' = out.result
           /\ line_num' = IF out.result.kind = "Running"
                          THEN line_num + 1 ELSE line_num
    /\ UNCHANGED <<doc, input, current_sections, origin, token, decoded>>

SyntaxError ==
    /\ Running /\ line_num < Len(Lines)
    /\ ~ignorable(Trimmed)
    /\ ~section_regex(Trimmed)
    /\ ~kv_regex(Trimmed).matched
    /\ result' = Err("Syntax error", line_num + 1, Trimmed)
    /\ UNCHANGED <<doc, input, line_num, current_sections, sections,
                   origin, token, decoded>>

(* The loop has consumed every line: Ok(config).                           *)
Finish ==
    /\ Running /\ line_num = Len(Lines)
    /\ result' = Ok([sections |-> sections])
    /\ UNCHANGED <<doc, input, line_num, current_sections, sections,
                   origin, token, decoded>>

Next == SkipLine \/ SectionHeader \/ KeyValue \/ SyntaxError \/ Finish

Spec == Init /\ [][Next]_vars

----------------------------------------------------------------------------
(* The value tokens parse_value is run on.  A token is written from its    *)
(* origin: a literal text, the elements of an array or the pairs of an     *)
(* object, each composite with at most MaxItems parts.                     *)

LiteralPool ==
    { "True", "False", "Null", "true", "foo",
      "\"abc\"", "\"\"", "\"",
      "42", "-7", "+42", "007", "-0", "0000000000000000000000042",
      "42.0", "1e5", "-1.5e-3", ".5", "5.", "42x", "4 2", "-", "+", "--1",
      "9223372036854775807", "9223372036854775808",
      "-9223372036854775808", "-9223372036854775809",
      "inf", "NaN", ".", "e5",
      "[1, 2, [3, 4]]", "[", "{", "]", "[}" }

ElementPool ==
    { "1", " 2 ", "\"one\"", "True", "2.5", "foo", "\"", "",
      "[3]", "[3, 4]", "{}" }

KeyPool == { "a", "\"a\"", "b", "\"" }

ValuePool == { "1", "2", "\"x==y\"", "{b == 1}", "foo" }

PairPool ==
    [key : KeyPool, value : ValuePool, marker : {TRUE}]
    \cup { [key |-> "a", value |-> "", marker |-> FALSE] }

Origins ==
    [shape : {"literal"}, text : LiteralPool]
    \cup [shape : {"array"}, pad : {"", " "},
          elems : UNION { [1..n -> ElementPool] : n \in 0..MaxItems }]
    \cup [shape : {"object"}, pad : {"", " "},
          pairs : UNION { [1..n -> PairPool] : n \in 0..MaxItems }]

PairText(p) == IF p.marker THEN p.key \o " == " \o p.value ELSE p.key

Render(o) ==
    CASE o.shape = "literal" -> o.text
      [] o.shape = "array" ->
            "[" \o o.pad \o join(o.elems, ",") \o o.pad \o "]"
      [] o.shape = "object" ->
            "{" \o o.pad
                \o join([i \in 1..Len(o.pairs) |-> PairText(o.pairs[i])], ",")
                \o o.pad \o "}"

InitValue ==
    /\ origin \in Origins
    /\ token = Render(origin)
    /\ decoded = [called |-> FALSE]
    /\ doc = <<>>
    /\ input = ""
    /\ line_num = 0
    /\ current_sections = <<>>
    /\ sections = <<>>
    /\ result = [kind |-> "Running"]

(* One call parse_value(token, line) for a line number of the document.    *)
Decode ==
    /\ ~decoded.called
    /\ \E line \in 1..MaxLines :
          decoded' = [called |-> TRUE, line |-> line,
                      out |-> parse_value(token, line)]
    /\ UNCHANGED <<doc, input, line_num, current_sections, sections, result,
                   origin, token>>

NextValue == Decode

SpecValue == InitValue /\ [][NextValue]_vars

----------------------------------------------------------------------------
(* Properties of parse, stated over the lines the document is written      *)
(* from.  Line n of the document is doc[n]; it has been consumed in a      *)
(* state with line_num >= n.                                               *)

LineAt(n) == trim(doc[n])

IsHeader(n) == ~ignorable(LineAt(n)) /\ section_regex(LineAt(n))

IsKeyValue(n) ==
    ~ignorable(LineAt(n)) /\ ~section_regex(LineAt(n))
    /\ kv_regex(LineAt(n)).matched

PathAt(n) == join(section_names(LineAt(n)), "/")

KeyAt(n) == kv_regex(LineAt(n)).key

DecodedAt(n) == parse_value(trim(kv_regex(LineAt(n)).value), n)

HeadersBefore(n) == { j \in 1..(n - 1) : IsHeader(j) }

Max(S) == CHOOSE m \in S : \A x \in S : x <= m

(* Line n is a key/value line read while path p is the current section.    *)
KeyValueUnder(n, p) ==
    /\ IsKeyValue(n)
    /\ HeadersBefore(n) # {}
    /\ PathAt(Max(HeadersBefore(n))) = p

(* The document the lines denote: one map per path some header resolves    *)
(* to, holding for each key the value of its last line under that path.    *)
FoldOfLines ==
    LET paths == { PathAt(n) : n \in { j \in 1..Len(doc) : IsHeader(j) } }
        under(p) == { n \in 1..Len(doc) : KeyValueUnder(n, p) }
    IN  [p \in paths |->
            [k \in { KeyAt(n) : n \in under(p) } |->
                DecodedAt(Max({ n \in under(p) : KeyAt(n) = k })).value]]

(* The text '<n1<n2<...<nk>...>' with one '>' per '<'.                     *)
RECURSIVE Repeat(_, _)
Repeat(c, k) == IF k = 0 THEN "" ELSE c \o Repeat(c, k - 1)

ClosedHeader(names) ==
    "<" \o join(names, "<") \o Repeat(">", Len(names))

HeaderNames == { <<"a">>, <<"a", "b">> }

(* C1: a header in the nested form '<n1<...<nk>...>', closed by one '>'    *)
(* per '<', is accepted and opens the section 'n1/.../nk'; a key/value     *)
(* line that follows it is stored under exactly that path.                 *)
C1_ClosedNestedHeaderOpensPath ==
    \A n \in 1..Len(doc) : \A names \in HeaderNames :
        LineAt(n) = ClosedHeader(names) =>
            /\ ~(result.kind = "Err" /\ result.line = n)
            /\ line_num = n =>
                  /\ current_sections = names
                  /\ join(names, "/") \in DOMAIN sections
            /\ (line_num = n + 1 /\ IsKeyValue(n + 1)) =>
                  KeyAt(n + 1) \in DOMAIN sections[join(names, "/")]

(* C2: when parse succeeds the document is the fold of the lines: a path   *)
(* is present iff a header resolved to it, each key holds the value of its *)
(* last line under that path, and reopening a path clears nothing.         *)
C2_DocumentIsFoldOfLines ==
    result.kind = "Ok" => result.value.sections = FoldOfLines

C2_Witness ==
    /\ result.kind = "Ok"
    /\ \E i, j, k \in 1..Len(doc) :
          /\ i < j /\ j < k
          /\ IsHeader(i) /\ IsHeader(k) /\ PathAt(i) = PathAt(k)
          /\ KeyValueUnder(j, PathAt(i))
          /\ KeyAt(j) \in DOMAIN result.value.sections[PathAt(i)]

(* Line n has key/value shape and is reached with no header above it.      *)
OutsideKeyValue(n) ==
    /\ IsKeyValue(n)
    /\ \A j \in 1..(n - 1) : ignorable(LineAt(j))

OutsideError(n) == Err("Key-value pair found outside of a section", n, "")

(* C3 as claimed: a key/value line reached with no header above it makes   *)
(* parse return the 'key outside section' error of that line, whatever its *)
(* value token is (here: whenever parse returns an error there).           *)
C3_OutsideErrorWhateverValue ==
    \A n \in 1..Len(doc) :
        OutsideKeyValue(n) =>
            /\ line_num < n
            /\ (line_num = n - 1 /\ result.kind = "Err") =>
                  result = OutsideError(n)

(* C3 amended: such a line ends the parse at that line without a document, *)
(* whatever follows: with the 'key outside section' error when its value   *)
(* token decodes, and with the decoder's own failure when it does not      *)
(* (the value is decoded before the section is checked).                   *)
C3_OutsideErrorAfterDecoding ==
    \A n \in 1..Len(doc) :
        OutsideKeyValue(n) =>
            /\ line_num < n
            /\ result.kind # "Ok"
            /\ (line_num = n - 1 /\ ~Running) =>
                  IF DecodedAt(n).kind = "Ok"
                  THEN result = OutsideError(n)
                  ELSE result = DecodedAt(n)

C3_Witness ==
    \E n \in 1..Len(doc) :
        /\ OutsideKeyValue(n)
        /\ \E j \in (n + 1)..Len(doc) : IsHeader(j)
        /\ result = OutsideError(n)

(* Line n does not parse: neither shape, or a value that does not decode.  *)
Malformed(n) ==
    /\ ~ignorable(LineAt(n))
    /\ ~section_regex(LineAt(n))
    /\ (kv_regex(LineAt(n)).matched => DecodedAt(n).kind # "Ok")

WellFormed(n) ==
    \/ ignorable(LineAt(n))
    \/ IsHeader(n)
    \/ IsKeyValue(n) /\ HeadersBefore(n) # {} /\ DecodedAt(n).kind = "Ok"

(* C4: if line k is the first malformed line, after ignorable lines, valid *)
(* headers and valid key/value lines inside a section, parse returns an    *)
(* error naming line k and no document, whatever follows line k.           *)
C4_FirstMalformedLineIsReported ==
    \A k \in 1..Len(doc) :
        (Malformed(k) /\ \A j \in 1..(k - 1) : WellFormed(j)) =>
            /\ line_num < k
            /\ result.kind # "Ok"
            /\ (line_num = k - 1 /\ ~Running) =>
                  (result.kind = "Err" /\ result.line = k)

(* C5: parse ends by returning a document or an error; it never panics,    *)
(* also on a value token that is the single character '"'.                 *)
C5_ParseNeverPanics == result.kind # "Panic"

(* C10: while the line loop runs, a set current section is a key of the    *)
(* section map, and the 'Section not initialized' error is never returned. *)
C10_CurrentSectionInitialized ==
    /\ Len(current_sections) > 0 =>
          join(current_sections, "/") \in DOMAIN sections
    /\ ~(result.kind = "Err" /\ result.error = "Section not initialized")

C10_Witness ==
    /\ Len(current_sections) > 0
    /\ join(current_sections, "/") \in DOMAIN sections
    /\ sections[join(current_sections, "/")] # <<>>

----------------------------------------------------------------------------
(* Properties of parse_value, stated over the parts the token is written   *)
(* from.                                                                   *)

Out == decoded.out

ElementOut(i) == parse_value(trim(origin.elems[i]), decoded.line)

ElementValues == [i \in 1..Len(origin.elems) |-> ElementOut(i).value]

CommaFree(elems) == \A i \in 1..Len(elems) : find_from(elems[i], ",", 0) < 0

BlankInterior == trim(interior(token)) = ""

(* C6: a nested array with two or more elements is decoded recursively as  *)
(* one element of the enclosing array: '[1, 2, [3, 4]]' is the Array of    *)
(* Integer 1, Integer 2 and the Array [Integer 3, Integer 4].              *)
C6_NestedArrayIsOneElement ==
    decoded.called =>
        /\ token = "[1, 2, [3, 4]]" =>
              Out = Ok(Array(<<Integer("1"), Integer("2"),
                               Array(<<Integer("3"), Integer("4")>>)>>))
        /\ ( /\ origin.shape = "array" /\ ~BlankInterior
             /\ \A i \in 1..Len(origin.elems) : ElementOut(i).kind = "Ok" ) =>
              Out = Ok(Array(ElementValues))

(* C7: an array token of n >= 1 comma-free elements decodes to the Array   *)
(* of the n decoded trimmed elements in source order, and fails with the   *)
(* element's decode error if an element fails to decode; an empty or       *)
(* whitespace-only interior decodes to the empty Array.                    *)
C7_ArrayOfCommaFreeElements ==
    (decoded.called /\ origin.shape = "array" /\ CommaFree(origin.elems)) =>
        IF BlankInterior THEN Out = Ok(Array(<<>>))
        ELSE IF \A i \in 1..Len(origin.elems) : ElementOut(i).kind = "Ok"
        THEN Out = Ok(Array(ElementValues))
        ELSE /\ Out.kind = "Err"
             /\ \E i \in 1..Len(origin.elems) : Out = ElementOut(i)

(* The key of a pair: one pair of surrounding double quotes stripped.      *)
ClaimedKey(k) == IF is_quoted(k) /\ Len(k) >= 2 THEN interior(k) ELSE k

(* The object the pairs denote when each pair is split once, at its first  *)
(* marker; Invalid stands for the syntax error of a pair without marker.   *)
RECURSIVE ClaimedObject(_, _, _)
ClaimedObject(pairs, map, line) ==
    IF Len(pairs) = 0 THEN Ok(Object(map))
    ELSE LET p == Head(pairs)
             val == parse_value(trim(p.value), line)
         IN  IF ~p.marker THEN Err("Invalid object pair", line, PairText(p))
             ELSE IF val.kind # "Ok" THEN val
             ELSE ClaimedObject(Tail(pairs),
                                insert(map, ClaimedKey(p.key), val.value),
                                line)

(* C8: each pair of an object token is split once on '==': the key, quotes *)
(* stripped, maps to the decoding of the whole remainder after the first   *)
(* marker, also when the remainder contains '=='; only a pair without the  *)
(* marker is a syntax error naming the pair and the line; a later          *)
(* duplicate key overwrites an earlier one.  Stated for the calls that     *)
(* return; the panic on a one-character key is the subject of C5.          *)
C8_PairsSplitOnceOnMarker ==
    (decoded.called /\ origin.shape = "object" /\ Out.kind # "Panic") =>
        LET claimed == ClaimedObject(origin.pairs, <<>>, decoded.line)
        IN  IF claimed.kind = "Err" /\ claimed.error = "Invalid object pair"
            THEN /\ Out.kind = "Err" /\ Out.error = claimed.error
                 /\ Out.line = claimed.line /\ trim(Out.text) = claimed.text
            ELSE Out = claimed

IsIntegerOut == Out.kind = "Ok" /\ Out.value.type = "Integer"

(* Digits after the given signs, within the 64-bit range of the sign.      *)
IntegerText(t, signs) ==
    LET body == IF Len(t) > 0 /\ Ch(t, 1) \in signs
                THEN SubSeq(t, 2, Len(t)) ELSE t
    IN  /\ Len(body) >= 1
        /\ AllIn(body, Digits)
        /\ digits_le(strip_zeros(body),
                     IF Ch(t, 1) = "-" THEN "9223372036854775808"
                     ELSE "9223372036854775807")

(* The decimal text of the value of an integer text.                       *)
IntegerValueOf(t) ==
    LET mag == strip_zeros(Unsigned(t))
    IN  IF Ch(t, 1) = "-" /\ mag # "0" THEN "-" \o mag ELSE mag

(* C9 as claimed: a token decodes to Integer(v) exactly when it is an      *)
(* optional '-' followed only by digits, with v its value in the 64-bit    *)
(* range; with a leading '+' it is never an Integer.                       *)
C9_IntegerIffMinusDigits ==
    decoded.called =>
        /\ IsIntegerOut <=> IntegerText(token, {"-"})
        /\ IsIntegerOut => Out.value.i = IntegerValueOf(token)

(* C9 amended: a token decodes to Integer(v) exactly when it is an         *)
(* optional '-' or '+' followed only by digits, with v its value in the    *)
(* 64-bit range; integers are tried before floats ('42' is Integer 42).    *)
C9_IntegerIffSignedDigits ==
    decoded.called =>
        /\ IsIntegerOut <=> IntegerText(token, {"-", "+"})
        /\ IsIntegerOut => Out.value.i = IntegerValueOf(token)
        /\ token = "42" => Out = Ok(Integer("42"))

C9_Witness ==
    /\ decoded.called
    /\ token = "+42"
    /\ Out = Ok(Integer("42"))

====
